---------------------------- MODULE Spec2Model ----------------------------
(***************************************************************************)
(* A model of the StockTicker sketch (src/StockTicker.ino): the quote      *)
(* fetch task, the ticker display task, the active-hours control task and  *)
(* the pure helpers they call (marketOpen, chopDecimalPlaces, the pattern  *)
(* matches of getQuote).  Strings are sequences of one-character strings.  *)
(***************************************************************************)
EXTENDS Integers, Sequences, FiniteSets, TLC

(***************************************************************************)
(* Configuration (#define lines and globals of the sketch)                 *)
(***************************************************************************)
MARKET_OPEN_HR == 9
MARKET_OPEN_MIN == 30
MARKET_CLOSE_HR == 16
MARKET_CLOSE_MIN == 0
DISP_DATE_CNT == 20
ACTIVE_ON_HR == 7
ACTIVE_OFF_HR == 19
displayWidth == 14

updatingMsg == <<"U", "P", "D", "A", "T", "I", "N", "G", ".", ".", ".", ".", ".", ".", ".", ".", ".", ".", ".", ".", ".", " ", " ">>
spacer == <<" ", " ">>
InvalidSymbol == <<"I", "n", "v", "a", "l", "i", "d", " ", "S", "y", "m", "b", "o", "l">>

\* The configured symbol list, in configuration order.
AllStocks == << <<"M", "S", "F", "T">>, <<"A", "A", "P", "L">>, <<"F", "B">>, <<"G", "O", "O", "G">> >>

\* Bounds of the model: how many symbols of the configured list are
\* tracked, and how many display ticks each specification explores.
NumStocks == 2
MaxTicks == 1
MaxRenderTicks == 16
MaxWindowTicks == 8
MaxMissTicks == 3
MaxNumLen == 5
MaxBannerTicks == 920

\* stocks[i] and stocksLen, 0-based as in the sketch.
stocksLen == IF NumStocks < Len(AllStocks) THEN NumStocks ELSE Len(AllStocks)
stocks(i) == AllStocks[i + 1]
StockIdx == 0 .. (stocksLen - 1)

(***************************************************************************)
(* Arduino String helpers                                                  *)
(***************************************************************************)
\* The value charAt returns for an index out of range.
NUL == "\\0"

\* A charAt that reads one position too far.
charAt_OffByOne(s, i) == IF i + 1 >= Len(s) THEN NUL ELSE s[i + 2]

\* String::charAt(i), 0-based; out of range gives 0.
charAt(s, i) == IF i >= Len(s) THEN NUL ELSE s[i + 1]

\* String::remove(0, 1): nothing to remove from an empty string.
removeFirst(s) == IF Len(s) = 0 THEN s ELSE Tail(s)

\* String::operator+=(char): a 0 character appends nothing.
concatChar(s, c) == IF c = NUL THEN s ELSE Append(s, c)

\* String::substring(0, n)
substring0(s, n) == IF Len(s) <= n THEN s ELSE SubSeq(s, 1, n)

Min(S) == CHOOSE x \in S : \A y \in S : x <= y

(***************************************************************************)
(* Wall-clock time.  time_t counts seconds from Sunday 00:00:00 of the     *)
(* week; struct tm keeps the weekday and the time of day.                  *)
(***************************************************************************)
\* localtime(): time_t -> struct tm
localtime(t) ==
  [tm_wday |-> (t \div 86400) % 7,
   tm_hour |-> (t % 86400) \div 3600,
   tm_min  |-> (t % 3600) \div 60,
   tm_sec  |-> t % 60]

\* mktime(): struct tm -> time_t
mktime(tm) == tm.tm_wday * 86400 + tm.tm_hour * 3600 + tm.tm_min * 60 + tm.tm_sec

difftime(a, b) == a - b

\* The weekday test of marketOpen() (0 = Sunday ... 6 = Saturday).
IsTradingDay(wday) == wday > 0 /\ wday < 7

\* The open-time comparison of marketOpen().
AfterOpen(t, openTime) == difftime(t, mktime(openTime)) > 0

\* The close-time comparison of marketOpen().
BeforeClose(t, closeTime) == difftime(t, mktime(closeTime)) < 0

\* marketOpen() at time t: the set of values it can return.  marketIsOpen
\* is assigned only inside the weekday test; outside it the function
\* returns an uninitialized bool.
marketOpen(t) ==
  LET timeinfo  == localtime(t)
      openTime  == [timeinfo EXCEPT !.tm_hour = MARKET_OPEN_HR,
                                    !.tm_min = MARKET_OPEN_MIN,
                                    !.tm_sec = 0]
      closeTime == [timeinfo EXCEPT !.tm_hour = MARKET_CLOSE_HR,
                                    !.tm_min = MARKET_CLOSE_MIN]
  IN  IF IsTradingDay(timeinfo.tm_wday)
        THEN {AfterOpen(t, openTime) /\ BeforeClose(t, closeTime)}
        ELSE BOOLEAN

\* The hour test of TaskControl.
ActiveHour(t) ==
  localtime(t).tm_hour >= ACTIVE_ON_HR /\ localtime(t).tm_hour < ACTIVE_OFF_HR

\* Time stamps by weekday and time of day.
At(wday, h, m, s) == mktime([tm_wday |-> wday, tm_hour |-> h, tm_min |-> m, tm_sec |-> s])

\* The instants the system clock steps through, in order, week after week.
Instants ==
  << At(0, 12, 0, 0),   \* Sunday noon
     At(1, 9, 30, 0),   \* Monday, the opening second
     At(1, 9, 30, 1),
     At(1, 16, 0, 0),   \* Monday, the closing second
     At(1, 19, 0, 0),   \* Monday, the active window ends
     At(6, 10, 0, 0) >> \* Saturday morning

InstantIdx(t) == CHOOSE k \in 1 .. Len(Instants) : Instants[k] = t
NextInstant(t) == Instants[(InstantIdx(t) % Len(Instants)) + 1]

(***************************************************************************)
(* chopDecimalPlaces and the pattern matches of getQuote                   *)
(***************************************************************************)
\* The while loop of chopDecimalPlaces from position i (0-based).
RECURSIVE chopFrom(_, _)
chopFrom(numStr, i) ==
  IF i >= Len(numStr) THEN numStr
  ELSE IF numStr[i + 1] = "."
         THEN IF i + 3 < Len(numStr)
                THEN SubSeq(numStr, 1, i + 3)   \* numStr[i + 3] = '\0'
                ELSE chopFrom(numStr, i + 4)
         ELSE chopFrom(numStr, i + 1)

\* A truncation that keeps three decimal places.
chopDecimalPlaces_ThreePlaces(numStr) ==
  LET dots == {p \in 1 .. Len(numStr) : numStr[p] = "."}
  IN  IF dots # {} /\ Min(dots) + 3 < Len(numStr)
        THEN SubSeq(numStr, 1, Min(dots) + 3)
        ELSE numStr

chopDecimalPlaces(numStr) == chopFrom(numStr, 0)

Digits == {"0", "1", "2", "3", "4", "5", "6", "7", "8", "9"}
LowerCase == {"a", "b", "c", "d", "e", "f", "g", "h", "i", "j", "k", "l", "m",
              "n", "o", "p", "q", "r", "s", "t", "u", "v", "w", "x", "y", "z"}
\* A key class that also takes the capital of priceChange.
KeyClass_WithCapital == LowerCase \cup {"\"", " ", "C"}

KeyClass == LowerCase \cup {"\"", " "}       \* [a-z" ]
PriceClass == Digits \cup {"."}              \* [0-9.]
ChangeClass == Digits \cup {".", "-"}        \* [0-9.-]
PriceKey == <<"p", "r", "i", "c", "e">>
ChangeKey == <<"p", "r", "i", "c", "e", "C", "h", "a", "n", "g", "e">>
KeyEnd == <<"=", "\"">>

\* Does the literal lit occur in buf at position p (1-based)?
LitAt(buf, p, lit) ==
  p + Len(lit) - 1 <= Len(buf) /\ SubSeq(buf, p, p + Len(lit) - 1) = lit

\* The position after the longest run of characters of class from p.
RunEnd(buf, p, class) ==
  Min({q \in p .. (Len(buf) + 1) : q = Len(buf) + 1 \/ buf[q] \notin class})

\* ms.Match(key [a-z" ]* =", 0): the position after the first match in
\* document order, 0 when the pattern matches nowhere.
MatchKey(buf, key) ==
  LET starts == {p \in 1 .. Len(buf) :
                   /\ LitAt(buf, p, key)
                   /\ LitAt(buf, RunEnd(buf, p + Len(key), KeyClass), KeyEnd)}
  IN  IF starts = {} THEN 0
      ELSE RunEnd(buf, Min(starts) + Len(key), KeyClass) + Len(KeyEnd)

\* ms.Match(class*, from) followed by GetMatch: the run of class at from.
MatchValue(buf, from, class) == SubSeq(buf, from, RunEnd(buf, from, class) - 1)

\* price[] after the first pair of matches; "" when the key is not found.
ExtractPrice(buf) ==
  IF MatchKey(buf, PriceKey) = 0 THEN <<>>
  ELSE MatchValue(buf, MatchKey(buf, PriceKey), PriceClass)

\* change[] after the second pair of matches.
ExtractChange(buf) ==
  IF MatchKey(buf, ChangeKey) = 0 THEN <<>>
  ELSE MatchValue(buf, MatchKey(buf, ChangeKey), ChangeClass)

\* A sign prefix that ignores the sign the value carries.
Dir_AlwaysPlus(change) == <<"+">>

\* String dir = change[0] != '-' ? "+" : "";
Dir(change) == IF Len(change) > 0 /\ change[1] = "-" THEN <<>> ELSE <<"+">>

\* The record getQuote(index) stores for the accumulated quoteData.
QuoteString(i, quoteData) ==
  LET price  == ExtractPrice(quoteData)
      change == ExtractChange(quoteData)
  IN  stocks(i) \o <<" ">> \o chopDecimalPlaces(price) \o <<" ">>
        \o Dir(change) \o chopDecimalPlaces(change)

\* What the server can answer to one request.
QuotePage == <<" ", "p", "r", "i", "c", "e", "=", "\"", "7", ".", "1", "2", "5", "\"", " ", "p", "r", "i", "c", "e", "C", "h", "a", "n", "g", "e", "=", "\"", "-", "1", "\"">>
Pages == {QuotePage}

\* connected: clientS.connect() succeeded; ok200: the status line holds
\* "200 OK"; quoteData: the lines accumulated after "structured-data"
\* ("" when the marker or the lines are missing).
ConnectFailed == [connected |-> FALSE, ok200 |-> FALSE, quoteData |-> <<>>]
Responses ==
  {ConnectFailed,
   [connected |-> TRUE, ok200 |-> FALSE, quoteData |-> <<>>],
   [connected |-> TRUE, ok200 |-> TRUE, quoteData |-> <<>>]}
  \cup {[connected |-> TRUE, ok200 |-> TRUE, quoteData |-> d] : d \in Pages}

\* Pages in which one of the two fields is missing, and a complete one.
NoPricePage == <<" ", "p", "r", "i", "c", "e", "C", "h", "a", "n", "g", "e", "=", "\"", "-", "1", "\"">>
NoChangePage == <<" ", "p", "r", "i", "c", "e", "=", "\"", "7", ".", "1", "2", "5", "\"">>
MissPages == {NoPricePage, NoChangePage}
MissResponses ==
  {[connected |-> TRUE, ok200 |-> TRUE, quoteData |-> d] : d \in MissPages \cup Pages}

\* A getQuote that returns without an assignment when "200 OK" is missing.
Writes_Only200(r) == r.connected /\ r.ok200 /\ r.quoteData # <<>>

\* A getQuote that assigns the record whatever the response.
Writes_Always(r) == TRUE

\* Does getQuote(index) assign stocksQuotes[index] for this response?
Writes(r) == r.connected /\ (~r.ok200 \/ r.quoteData # <<>>)

\* An assignment that blanks the record when "200 OK" is missing.
NewValue_Blank(i, r) == IF ~r.ok200 THEN <<>> ELSE QuoteString(i, r.quoteData)

\* The value getQuote(index) assigns.
NewValue(i, r) == IF ~r.ok200 THEN InvalidSymbol ELSE QuoteString(i, r.quoteData)

(***************************************************************************)
(* State                                                                   *)
(***************************************************************************)
VARIABLES
  now,            \* the system clock (time_t)
  stocksQuotes,   \* the quote record of every symbol
  haveQuoteData,  \* the global flag of the same name
  pcF,            \* TaskGetQuotes: "top", "getQuote", "write", "cycleDelay", "idleDelay"
  stocksIndex,    \* TaskGetQuotes: the symbol index
  resp,           \* getQuote: the server's answer to the request in progress
  pcD,            \* TaskDisplay: "none" (not created), "init", "loop"
  displayText,    \* TaskDisplay: the rolling text
  nextUp,         \* TaskDisplay: the segment being fed into displayText
  nPos,           \* TaskDisplay: position in nextUp
  index,          \* TaskDisplay: index in the stocks array
  quoteCnt,       \* TaskDisplay: segments since the last date banner
  ticks,          \* number of display ticks taken (bounds the exploration)
  pcC,            \* TaskControl: "none" (not created), "tick", "delay"
  displayOn,      \* TaskControl: its on/off latch
  ctlCall,        \* the vTaskSuspend/vTaskResume calls of the latest control tick
  suspended,      \* the tasks vTaskSuspend has stopped
  oled,           \* the text on the display
  cycleSinceClose,\* history: a fetch cycle has wrapped since the market last closed
  resetPending,   \* history: TaskDisplay has cleared haveQuoteData with the
                  \* market closed and no fetch cycle has ended since
  segHist,        \* history: quote segments loaded since the last date banner,
                  \* date banners loaded so far, and the symbol index of
                  \* the last quote segment loaded
  arg,            \* the argument of the pure function under check
  ret             \* the value returned by the pure function under check

vars == <<now, stocksQuotes, haveQuoteData, pcF, stocksIndex, resp, pcD,
          displayText, nextUp, nPos, index, quoteCnt, ticks, pcC, displayOn,
          ctlCall, suspended, oled, cycleSinceClose, resetPending,
          segHist, arg, ret>>

fetchVars == <<pcF, stocksIndex, resp>>
displayVars == <<pcD, displayText, nextUp, nPos, index, quoteCnt, ticks, segHist>>
controlVars == <<pcC, displayOn, ctlCall>>
pureVars == <<arg, ret>>

\* "Fetching quote data...", drawn by setup() before the tasks are created.
FetchingMsg == <<"F", "e", "t", "c", "h", "i", "n", "g", " ", "q", "u", "o", "t", "e", " ", "d", "a", "t", "a", ".", ".", ".">>

\* The market hours as the documentation gives them: Monday to Friday,
\* from the opening second up to, not including, the closing second.
MarketHours(t) ==
  /\ localtime(t).tm_wday \in 1 .. 5
  /\ t % 86400 >= MARKET_OPEN_HR * 3600 + MARKET_OPEN_MIN * 60
  /\ t % 86400 < MARKET_CLOSE_HR * 3600 + MARKET_CLOSE_MIN * 60

\* setup() up to and including xTaskCreatePinnedToCore(TaskGetQuotes): the
\* records are empty, the fetch task is at the top of its loop, the other
\* two tasks do not exist yet.  The device can boot at any instant.
InitWith(t, a) ==
  /\ now = t
  /\ stocksQuotes = [i \in StockIdx |-> <<>>]
  /\ haveQuoteData = FALSE
  /\ pcF = "top"
  /\ stocksIndex = 0
  /\ resp = ConnectFailed
  /\ pcD = "none"
  /\ displayText = <<>>
  /\ nextUp = <<>>
  /\ nPos = 0
  /\ index = 0
  /\ quoteCnt = 0
  /\ ticks = 0
  /\ pcC = "none"
  /\ displayOn = TRUE
  /\ ctlCall = "none"
  /\ suspended = {}
  /\ oled = FetchingMsg
  /\ cycleSinceClose = FALSE
  /\ resetPending = FALSE
  /\ segHist = [quotes |-> 0, banners |-> 0, last |-> 0]
  /\ arg = a
  /\ ret = <<>>

InitAt(t) == InitWith(t, <<>>)

Init == \E k \in 1 .. Len(Instants) : InitAt(Instants[k])

(***************************************************************************)
(* The clock and setup()                                                   *)
(***************************************************************************)
\* Time passes to the next instant.
ClockTick ==
  /\ now' = NextInstant(now)
  /\ cycleSinceClose' = IF MarketHours(now) /\ ~MarketHours(now') THEN FALSE
                        ELSE cycleSinceClose
  /\ UNCHANGED <<stocksQuotes, haveQuoteData, fetchVars, displayVars,
                 controlVars, suspended, oled, resetPending, pureVars>>

\* setup() after delay(30000): creates TaskDisplay and TaskControl.
SetupCreateTasks ==
  /\ pcD = "none"
  /\ pcD' = "init"
  /\ pcC' = "tick"
  /\ UNCHANGED <<now, stocksQuotes, haveQuoteData, fetchVars, displayText,
                 nextUp, nPos, index, quoteCnt, ticks, segHist, displayOn,
                 ctlCall, suspended, oled, cycleSinceClose, resetPending, pureVars>>

(***************************************************************************)
(* TaskGetQuotes and getQuote                                              *)
(***************************************************************************)
\* The loop's test: marketOpen() || !haveQuoteData.
ShouldFetch(m, have) == m \/ ~have

\* The top of the loop: either calls getQuote(stocksIndex), whose request
\* the server answers with one of the responses R, or waits for the update
\* interval.
TaskGetQuotesTopFrom(R) ==
  /\ pcF = "top"
  /\ "fetch" \notin suspended
  /\ \E m \in marketOpen(now) :
       IF ShouldFetch(m, haveQuoteData)
         THEN \E r \in R : resp' = r /\ pcF' = "getQuote"
         ELSE resp' = resp /\ pcF' = "idleDelay"
  /\ UNCHANGED <<now, stocksQuotes, haveQuoteData, stocksIndex, displayVars,
                 controlVars, suspended, oled, cycleSinceClose, resetPending, pureVars>>

TaskGetQuotesTop == TaskGetQuotesTopFrom(Responses)

\* The same step with a server whose pages can lack one of the two fields.
TaskGetQuotesTopMiss == TaskGetQuotesTopFrom(MissResponses)

\* An index update that stays on the symbol.
AdvanceIndex_Stay(i) == i

\* stocksIndex += 1; if (stocksIndex == stocksLen) stocksIndex = 0;
AdvanceIndex(i) == IF i + 1 = stocksLen THEN 0 ELSE i + 1

\* The rest of the loop body once getQuote has returned.
AfterGetQuote ==
  /\ stocksIndex' = AdvanceIndex(stocksIndex)
  /\ pcF' = IF stocksIndex + 1 = stocksLen THEN "cycleDelay" ELSE "top"
  /\ cycleSinceClose' = IF stocksIndex + 1 = stocksLen THEN TRUE ELSE cycleSinceClose
  /\ resetPending' = IF stocksIndex + 1 = stocksLen THEN FALSE ELSE resetPending
  /\ resp' = ConnectFailed

\* getQuote from connect() to the assignment of stocksQuotes[index] or to
\* one of its early returns.
GetQuoteRun ==
  /\ pcF = "getQuote"
  /\ "fetch" \notin suspended
  /\ IF Writes(resp)
       THEN /\ pcF' = "write"
            /\ UNCHANGED <<stocksIndex, resp, cycleSinceClose, resetPending>>
       ELSE AfterGetQuote
  /\ UNCHANGED <<now, stocksQuotes, haveQuoteData, displayVars, controlVars,
                 suspended, oled, pureVars>>

\* The String assignment to stocksQuotes[index] completes.
GetQuoteStore ==
  /\ pcF = "write"
  /\ "fetch" \notin suspended
  /\ stocksQuotes' = [stocksQuotes EXCEPT ![stocksIndex] = NewValue(stocksIndex, resp)]
  /\ AfterGetQuote
  /\ UNCHANGED <<now, haveQuoteData, displayVars, controlVars, suspended,
                 oled, pureVars>>

\* vTaskDelay(xDelay) after a full cycle ends; then haveQuoteData = true.
CycleDelayDone ==
  /\ pcF = "cycleDelay"
  /\ "fetch" \notin suspended
  /\ haveQuoteData' = TRUE
  /\ pcF' = "top"
  /\ UNCHANGED <<now, stocksQuotes, stocksIndex, resp, displayVars,
                 controlVars, suspended, oled, cycleSinceClose, resetPending, pureVars>>

\* vTaskDelay(xDelay) of the else branch ends.
IdleDelayDone ==
  /\ pcF = "idleDelay"
  /\ "fetch" \notin suspended
  /\ pcF' = "top"
  /\ UNCHANGED <<now, stocksQuotes, haveQuoteData, stocksIndex, resp,
                 displayVars, controlVars, suspended, oled, cycleSinceClose,
                 resetPending, pureVars>>

(***************************************************************************)
(* TaskDisplay                                                             *)
(***************************************************************************)
\* The bytes a reader can find in place of a String that is being assigned.
Garbled == <<"?">>

\* What a read of stocksQuotes[i] can return.  The array is shared by two
\* tasks on two cores with no lock: a read during the assignment of
\* getQuote returns the old value, the new value or a mix of both.
ReadValues(i) ==
  IF pcF = "write" /\ stocksIndex = i
    THEN {stocksQuotes[i], NewValue(i, resp), Garbled}
    ELSE {stocksQuotes[i]}

\* The segment for a record: the placeholder when it is empty.
Segment(q) == IF Len(q) = 0 THEN updatingMsg ELSE q \o spacer

\* The for loop that builds the initial displayText from the records read.
RECURSIVE LoadText(_, _)
LoadText(rd, i) ==
  IF i >= stocksLen THEN <<>> ELSE Segment(rd[i]) \o LoadText(rd, i + 1)

\* String nextUp = stocksQuotes[index] + spacer;
FirstNextUp(q) == q \o spacer

TwoDigits(n) ==
  LET d == <<"0", "1", "2", "3", "4", "5", "6", "7", "8", "9">>
  IN  <<d[(n \div 10) + 1], d[(n % 10) + 1]>>

\* %B: the full month names of the C locale, tm_mon + 1 = 1 .. 12.
MonthNames ==
  << <<"J", "a", "n", "u", "a", "r", "y">>,
     <<"F", "e", "b", "r", "u", "a", "r", "y">>,
     <<"M", "a", "r", "c", "h">>,
     <<"A", "p", "r", "i", "l">>,
     <<"M", "a", "y">>,
     <<"J", "u", "n", "e">>,
     <<"J", "u", "l", "y">>,
     <<"A", "u", "g", "u", "s", "t">>,
     <<"S", "e", "p", "t", "e", "m", "b", "e", "r">>,
     <<"O", "c", "t", "o", "b", "e", "r">>,
     <<"N", "o", "v", "e", "m", "b", "e", "r">>,
     <<"D", "e", "c", "e", "m", "b", "e", "r">> >>

\* The characters of " ... %B, %d %Y  %I:%M %p ...   " for month mon, day
\* mday of 2019 at hour:min.
BannerText(mon, mday, hour, min) ==
  LET h12 == IF hour % 12 = 0 THEN 12 ELSE hour % 12
  IN  <<" ", ".", ".", ".", " ">>
        \o MonthNames[mon] \o <<",", " ">>
        \o TwoDigits(mday) \o <<" ">> \o <<"2", "0", "1", "9">>
        \o <<" ", " ">> \o TwoDigits(h12) \o <<":">> \o TwoDigits(min)
        \o <<" ">> \o (IF hour < 12 THEN <<"A", "M">> ELSE <<"P", "M">>)
        \o <<" ", ".", ".", ".", " ", " ", " ">>

\* strftime(dateTime, 80, " ... %B, %d %Y  %I:%M %p ...   ", timeinfo).
\* The clock of the model keeps no calendar date: %B, %d %Y is that of
\* one sample day.
FormatDateTime(t) ==
  LET tm == localtime(t)
  IN  BannerText(9, tm.tm_wday + 1, tm.tm_hour, tm.tm_min)

\* char dateTime[30] and the length limit handed to strftime.
dateTimeSize == 30
strftimeMax == 80

\* The bytes strftime stores for a text: its characters and the terminator.
\* It stores nothing defined when they exceed the limit it was given.
BytesStored(text) == Len(text) + 1

\* nextUp = dateTime.  When strftime has written past the end of dateTime
\* the behaviour is undefined: nextUp holds the text or anything else.
BannerOutcomes(t) ==
  IF BytesStored(FormatDateTime(t)) <= dateTimeSize
       /\ BytesStored(FormatDateTime(t)) <= strftimeMax
    THEN {FormatDateTime(t)}
    ELSE {FormatDateTime(t), Garbled}

\* An index update that leaves out a symbol.
NextIndex_Skip(i) == (i + 2) % stocksLen

\* index = (index + 1) % stocksLen;
NextIndex(i) == (i + 1) % stocksLen

\* The code before the for loop: reads every record to build displayText,
\* clears haveQuoteData when one is empty, reads record 0 again for nextUp.
TaskDisplayStart ==
  /\ pcD = "init"
  /\ "display" \notin suspended
  /\ \E rd \in [StockIdx -> UNION {ReadValues(i) : i \in StockIdx}] :
       /\ \A i \in StockIdx : rd[i] \in ReadValues(i)
       /\ displayText' = LoadText(rd, 0)
       /\ haveQuoteData' = IF \E i \in StockIdx : Len(rd[i]) = 0 THEN FALSE
                           ELSE haveQuoteData
       /\ resetPending' = IF /\ \E i \in StockIdx : Len(rd[i]) = 0
                              /\ marketOpen(now) = {FALSE}
                              /\ ~MarketHours(now)
                            THEN TRUE
                            ELSE resetPending
  /\ \E q \in ReadValues(0) : nextUp' = FirstNextUp(q)
  /\ quoteCnt' = 0
  /\ index' = 0
  /\ nPos' = 0
  /\ pcD' = "loop"
  /\ segHist' = [quotes |-> 1, banners |-> 0, last |-> 0]
  /\ UNCHANGED <<now, stocksQuotes, fetchVars, ticks, controlVars, suspended,
                 oled, cycleSinceClose, pureVars>>

\* One iteration of the for loop: scroll by one character, load the next
\* segment when nextUp is used up, draw the frame.
TaskDisplayTick ==
  /\ pcD = "loop"
  /\ "display" \notin suspended
  /\ displayText' = concatChar(removeFirst(displayText), charAt(nextUp, nPos))
  /\ IF nPos + 1 = Len(nextUp)
       THEN /\ nPos' = 0
            /\ index' = NextIndex(index)
            /\ quoteCnt' = (quoteCnt + 1) % DISP_DATE_CNT
            /\ IF quoteCnt' = 0
                 THEN /\ \E b \in BannerOutcomes(now) : nextUp' = b
                      /\ segHist' = [quotes |-> 0,
                                     banners |-> IF segHist.banners < 2
                                                   THEN segHist.banners + 1
                                                   ELSE 2,
                                     last |-> segHist.last]
                 ELSE /\ \E q \in ReadValues(index') : nextUp' = Segment(q)
                      /\ segHist' = [segHist EXCEPT !.quotes = @ + 1,
                                                    !.last = index']
       ELSE /\ nPos' = nPos + 1
            /\ UNCHANGED <<index, quoteCnt, nextUp, segHist>>
  /\ oled' = substring0(displayText', displayWidth)
  /\ ticks' = ticks + 1
  /\ UNCHANGED <<now, stocksQuotes, haveQuoteData, fetchVars, pcD,
                 controlVars, suspended, cycleSinceClose, resetPending, pureVars>>

(***************************************************************************)
(* TaskControl                                                             *)
(***************************************************************************)
\* A suspend test that forgets the latch.
ShouldSuspend_NoLatch(active, on) == ~active

\* else { if (displayOn) ... }
ShouldSuspend(active, on) == ~active /\ on

\* A resume test that never fires.
ShouldResume_Never(active, on) == FALSE

\* if (active hour) { if (!displayOn) ... }
ShouldResume(active, on) == active /\ ~on

\* A vTaskSuspend that leaves the task running.
vTaskSuspend_Ignored(tasks, h) == tasks

\* A vTaskResume that leaves the task suspended.
vTaskResume_Ignored(tasks, h) == tasks

\* vTaskSuspend(h) and vTaskResume(h) on the set of suspended tasks.
vTaskSuspend(tasks, h) == tasks \cup {h}
vTaskResume(tasks, h) == tasks \ {h}

\* One iteration of the loop up to its delay.
TaskControlTick ==
  /\ pcC = "tick"
  /\ IF ShouldResume(ActiveHour(now), displayOn)
       THEN /\ displayOn' = TRUE
            /\ suspended' = vTaskResume(vTaskResume(suspended, "display"), "fetch")
            /\ ctlCall' = "resume"
            /\ oled' = oled
       ELSE IF ShouldSuspend(ActiveHour(now), displayOn)
         THEN /\ displayOn' = FALSE
              /\ suspended' = vTaskSuspend(vTaskSuspend(suspended, "display"), "fetch")
              /\ ctlCall' = "suspend"
              /\ oled' = <<>>
         ELSE /\ ctlCall' = "none"
              /\ UNCHANGED <<displayOn, suspended, oled>>
  /\ pcC' = "delay"
  /\ UNCHANGED <<now, stocksQuotes, haveQuoteData, fetchVars, displayVars,
                 cycleSinceClose, resetPending, pureVars>>

\* delay(500); vTaskDelay(xDelay) ends.
TaskControlDelayDone ==
  /\ pcC = "delay"
  /\ pcC' = "tick"
  /\ ctlCall' = "none"
  /\ UNCHANGED <<now, stocksQuotes, haveQuoteData, fetchVars, displayVars,
                 displayOn, suspended, oled, cycleSinceClose, resetPending, pureVars>>

(***************************************************************************)
(* Specifications                                                          *)
(***************************************************************************)
Next ==
  \/ ClockTick
  \/ SetupCreateTasks
  \/ TaskGetQuotesTop
  \/ GetQuoteRun
  \/ GetQuoteStore
  \/ CycleDelayDone
  \/ IdleDelayDone
  \/ TaskDisplayStart
  \/ (ticks < MaxTicks /\ TaskDisplayTick)
  \/ TaskControlTick
  \/ TaskControlDelayDone

Spec == Init /\ [][Next]_vars

\* The two tasks that share stocksQuotes, with the clock at rest in the
\* active window and the control task never scheduled.
InitRender == InitAt(At(1, 9, 30, 1))

NextRender ==
  \/ SetupCreateTasks
  \/ TaskGetQuotesTop
  \/ GetQuoteRun
  \/ GetQuoteStore
  \/ CycleDelayDone
  \/ TaskDisplayStart
  \/ (ticks < MaxRenderTicks /\ TaskDisplayTick)

SpecRender == InitRender /\ [][NextRender]_vars

\* The same tasks with a server that either refuses the connection or
\* answers with a complete page.
QuoteResponses ==
  {ConnectFailed}
    \cup {[connected |-> TRUE, ok200 |-> TRUE, quoteData |-> d] : d \in Pages}

TaskGetQuotesTopQuote == TaskGetQuotesTopFrom(QuoteResponses)

NextRotate ==
  \/ SetupCreateTasks
  \/ TaskGetQuotesTopQuote
  \/ GetQuoteRun
  \/ GetQuoteStore
  \/ CycleDelayDone
  \/ TaskDisplayStart
  \/ (ticks < MaxRenderTicks /\ TaskDisplayTick)

SpecRotate == InitRender /\ [][NextRotate]_vars

\* The same tasks over a shorter run of the display loop.
NextWindow ==
  \/ SetupCreateTasks
  \/ TaskGetQuotesTop
  \/ GetQuoteRun
  \/ GetQuoteStore
  \/ CycleDelayDone
  \/ TaskDisplayStart
  \/ (ticks < MaxWindowTicks /\ TaskDisplayTick)

SpecWindow == InitRender /\ [][NextWindow]_vars

\* The control task with the clock and the fetch task it suspends; the
\* display task, which shares no variable that TaskControl reads, stays
\* at its entry.
NextControl ==
  \/ ClockTick
  \/ SetupCreateTasks
  \/ TaskGetQuotesTop
  \/ GetQuoteRun
  \/ GetQuoteStore
  \/ CycleDelayDone
  \/ IdleDelayDone
  \/ TaskControlTick
  \/ TaskControlDelayDone

SpecControl == Init /\ [][NextControl]_vars

\* The fetch and display tasks with a server whose pages can lack the
\* price or the priceChange field.
NextMiss ==
  \/ SetupCreateTasks
  \/ TaskGetQuotesTopMiss
  \/ GetQuoteRun
  \/ GetQuoteStore
  \/ CycleDelayDone
  \/ TaskDisplayStart
  \/ (ticks < MaxMissTicks /\ TaskDisplayTick)

SpecMiss == InitRender /\ [][NextMiss]_vars

\* The display task over two periods of the date banner, with the server
\* out of reach: every connect() of the fetch task fails and the records
\* stay empty.
TaskGetQuotesTopDown == TaskGetQuotesTopFrom({ConnectFailed})

NextBanner ==
  \/ SetupCreateTasks
  \/ TaskGetQuotesTopDown
  \/ GetQuoteRun
  \/ CycleDelayDone
  \/ TaskDisplayStart
  \/ (ticks < MaxBannerTicks /\ TaskDisplayTick)

SpecBanner == InitRender /\ [][NextBanner]_vars

\* The three tasks with the clock at rest, at an instant inside the active
\* window and the market hours or at one outside both.
InitTasks == InitAt(At(1, 9, 30, 1)) \/ InitAt(At(1, 19, 0, 0))

NextTasks ==
  \/ SetupCreateTasks
  \/ TaskGetQuotesTop
  \/ GetQuoteRun
  \/ GetQuoteStore
  \/ CycleDelayDone
  \/ IdleDelayDone
  \/ TaskDisplayStart
  \/ (ticks < MaxTicks /\ TaskDisplayTick)
  \/ TaskControlTick
  \/ TaskControlDelayDone

SpecTasks == InitTasks /\ [][NextTasks]_vars

\* The three tasks and the clock with the server out of reach.
NextNight ==
  \/ ClockTick
  \/ SetupCreateTasks
  \/ TaskGetQuotesTopDown
  \/ GetQuoteRun
  \/ CycleDelayDone
  \/ IdleDelayDone
  \/ TaskDisplayStart
  \/ (ticks < MaxTicks /\ TaskDisplayTick)
  \/ TaskControlTick
  \/ TaskControlDelayDone

SpecNight == Init /\ [][NextNight]_vars

\* The fetch and display tasks over the first ticks of the display loop.
NextStart ==
  \/ SetupCreateTasks
  \/ TaskGetQuotesTop
  \/ GetQuoteRun
  \/ GetQuoteStore
  \/ CycleDelayDone
  \/ TaskDisplayStart
  \/ (ticks < MaxMissTicks /\ TaskDisplayTick)

SpecStart == InitRender /\ [][NextStart]_vars

\* The same with the scheduling FreeRTOS gives the tasks of core 1: a task
\* that is ready and not suspended runs.  TaskDisplay has the highest
\* priority of the core and blocks in delay(200) on every iteration;
\* TaskControl runs while TaskDisplay and loop() are blocked and comes back
\* from its delays.  Nothing is assumed of the clock or of the fetch task.
SpecLive ==
  /\ Init
  /\ [][NextNight]_vars
  /\ WF_vars(TaskControlTick)
  /\ WF_vars(TaskControlDelayDone)
  /\ WF_vars(TaskDisplayStart)
  /\ WF_vars(ticks < MaxTicks /\ TaskDisplayTick)

\* marketOpen() as a function of the clock.
MarketInputs ==
  {At(d, h, m, s) : d \in 0 .. 6, h \in {0, 9, 15, 16, 23}, m \in {0, 29, 30, 59},
                    s \in {0, 1, 59}}

InitMarket == \E t \in MarketInputs : InitAt(t)

MarketOpenCall ==
  /\ ret = <<>>
  /\ \E m \in marketOpen(now) : ret' = <<m>>
  /\ UNCHANGED <<now, stocksQuotes, haveQuoteData, fetchVars, displayVars,
                 controlVars, suspended, oled, cycleSinceClose, resetPending, arg>>

NextMarket == MarketOpenCall

SpecMarket == InitMarket /\ [][NextMarket]_vars

\* chopDecimalPlaces() as a function of its argument: the numeric strings
\* of at most MaxNumLen characters over two digits and the point, with and
\* without a leading minus sign, and three longer samples.
NumChars == {"1", "5", "."}
UnsignedNums ==
  {s \in UNION {[1 .. n -> NumChars] : n \in 1 .. MaxNumLen} :
     /\ Cardinality({p \in 1 .. Len(s) : s[p] = "."}) <= 1
     /\ \E p \in 1 .. Len(s) : s[p] # "."}
NumSamples ==
  {<<"1", "2", "3", ".", "4", "5", "6">>, <<"-", "0", ".", "5">>,
   <<"4", "5", ".", "6", "7", "8", "9">>, <<"-", "1", ".", "2", "3", "4">>}
NumStrs == UnsignedNums \cup {<<"-">> \o s : s \in UnsignedNums} \cup NumSamples

InitChop == \E s \in NumStrs : InitWith(At(1, 9, 30, 1), <<s>>)

ChopCall ==
  /\ ret = <<>>
  /\ ret' = <<chopDecimalPlaces(arg[1])>>
  /\ UNCHANGED <<now, stocksQuotes, haveQuoteData, fetchVars, displayVars,
                 controlVars, suspended, oled, cycleSinceClose, resetPending, arg>>

NextChop == ChopCall

SpecChop == InitChop /\ [][NextChop]_vars

\* getQuote's extraction (lines 244-282) as a function of the content: the
\* values of the two fields and the layout of the markup around them.
PriceValues ==
  {<<"4", "5", ".", "6", "7", "8", "9">>,
   <<"7", ".", "1", "2", "5">>,
   <<"1", "0", "0">>,
   <<"0", ".", "5">>,
   <<"1", "2", ".", "3">>,
   <<"3", ".", "1", "4", "1", "5", "9">>}
ChangeValues ==
  {<<"-", "1", ".", "2", "3", "4">>,
   <<"1", ".", "2", "3">>,
   <<"-", "1", ".", "2", "3">>,
   <<"0">>,
   <<"-", "0", ".", "5">>,
   <<"2", ".", "3", "4", "5", "6">>}

\* The content for price value p and change value c: the two fields in
\* either order, as attributes or in the itemprop/content form, and with a
\* second pair of fields behind the first.
Layouts == 1 .. 4
MakePage(p, c, layout) ==
  LET q == <<"\"">>
      priceField == <<" ", "p", "r", "i", "c", "e", "=">> \o q \o p \o q
      changeField == <<" ", "p", "r", "i", "c", "e", "C", "h", "a", "n", "g", "e", "=">> \o q \o c \o q
  IN  CASE layout = 1 -> priceField \o changeField
        [] layout = 2 -> changeField \o priceField
        [] layout = 3 -> <<" ", "i", "t", "e", "m", "p", "r", "o", "p", "=", "\"", "p", "r", "i", "c", "e", "\"", " ", "c", "o", "n", "t", "e", "n", "t", "=">> \o q \o p \o q
                           \o <<" ", "i", "t", "e", "m", "p", "r", "o", "p", "=", "\"", "p", "r", "i", "c", "e", "C", "h", "a", "n", "g", "e", "\"", " ", "c", "o", "n", "t", "e", "n", "t", "=">> \o q \o c \o q
        [] layout = 4 -> priceField \o changeField
                           \o <<" ", "p", "r", "i", "c", "e", "=", "\"", "9", ".", "9", "9", "\"">> \o <<" ", "p", "r", "i", "c", "e", "C", "h", "a", "n", "g", "e", "=", "\"", "-", "9", ".", "9", "9", "\"">>

InitExtract ==
  \E i \in StockIdx, p \in PriceValues, c \in ChangeValues, layout \in Layouts :
     InitWith(At(1, 9, 30, 1), <<i, p, c, layout>>)

ExtractCall ==
  /\ ret = <<>>
  /\ ret' = <<QuoteString(arg[1], MakePage(arg[2], arg[3], arg[4]))>>
  /\ UNCHANGED <<now, stocksQuotes, haveQuoteData, fetchVars, displayVars,
                 controlVars, suspended, oled, cycleSinceClose, resetPending, arg>>

NextExtract == ExtractCall

SpecExtract == InitExtract /\ [][NextExtract]_vars

(***************************************************************************)
(* Properties                                                              *)
(***************************************************************************)
\* A step of TaskDisplay's for loop.
DisplayTickStep == pcD = "loop" /\ ticks' = ticks + 1

\* A step in which TaskDisplay reads stocksQuotes[i]: the start-up code
\* reads every record, the loop reads the record of the segment it loads.
DisplayReads(i) ==
  \/ pcD = "init" /\ pcD' = "loop"
  \/ DisplayTickStep /\ nPos' = 0 /\ quoteCnt' # 0 /\ index' = i

\* A step in which TaskDisplay chooses the segment of symbol i.
SegmentChosenFor(i) ==
  \/ pcD = "init" /\ pcD' = "loop" /\ i = 0
  \/ DisplayTickStep /\ nPos' = 0 /\ quoteCnt' # 0 /\ index' = i

\* An assignment to stocksQuotes[i] is in progress.
WriteInProgress(i) == pcF = "write" /\ stocksIndex = i

\* A step that starts an iteration of TaskGetQuotes' for loop.
FetchLoopStep == pcF = "top" /\ pcF' # "top"

\* A step that runs one iteration of TaskControl's for loop.
ControlTickStep == pcC = "tick" /\ pcC' = "delay"

\* C1: the loop iteration whose getQuote fails to connect leaves the symbol
\* index where it was, so that the next getQuote call is for the same index.
C1_RetrySameIndex ==
  [][(pcF = "getQuote" /\ ~resp.connected /\ pcF' # "getQuote")
       => stocksIndex' = stocksIndex]_vars

\* C2: the display task never reads stocksQuotes[i] while an assignment to
\* stocksQuotes[i] is in progress.
C2_NoReadDuringWrite ==
  [][\A i \in StockIdx : DisplayReads(i) => ~WriteInProgress(i)]_vars

\* C3: an iteration of the fetch loop taken while the hour is outside
\* [ACTIVE_ON_HR, ACTIVE_OFF_HR) calls no getQuote, writes no record and
\* does not advance the symbol index.
C3_IdleOutsideActiveWindow ==
  [][(FetchLoopStep /\ ~ActiveHour(now))
       => /\ pcF' # "getQuote"
          /\ stocksQuotes' = stocksQuotes
          /\ stocksIndex' = stocksIndex]_vars

\* C4: on a fetch loop iteration while the market is closed, the loop skips
\* the fetch if and only if a full cycle has completed since the market
\* last closed.
C4_SkipIffCycleSinceClose ==
  [][(FetchLoopStep /\ ~MarketHours(now) /\ marketOpen(now) = {FALSE})
       => ((pcF' = "idleDelay") <=> cycleSinceClose)]_vars

\* C5: marketOpen() returns false on every Saturday and Sunday time stamp.
C5_WeekendClosed ==
  (ret # <<>> /\ localtime(now).tm_wday \in {0, 6}) => ret = <<FALSE>>

\* C6: on a Monday-to-Friday time stamp marketOpen() returns true exactly
\* when 09:30:00 <= time of day < 16:00:00.
C6_OpenWindow ==
  (ret # <<>> /\ localtime(now).tm_wday \in 1 .. 5) => ret = <<MarketHours(now)>>

\* C7: a control tick calls vTaskSuspend only when the hour is inactive and
\* the tasks are running, calls vTaskResume only when the hour is active and
\* the tasks are suspended (so the calls alternate), and calls neither when
\* the hour is in the region the latch displayOn records; after the tick the
\* latch records the region of this tick.
C7_EdgeTriggered ==
  [][ControlTickStep
       => /\ ctlCall' = "suspend"
               => (~ActiveHour(now) /\ displayOn /\ suspended = {})
          /\ ctlCall' = "resume"
               => (ActiveHour(now) /\ ~displayOn /\ suspended = {"display", "fetch"})
          /\ (ActiveHour(now) <=> displayOn) => ctlCall' = "none"
          /\ displayOn' = ActiveHour(now)]_vars

\* C7 witness: a control tick has resumed the tasks it suspended earlier.
C7_Witness == pcC = "delay" /\ ctlCall = "resume" /\ suspended = {}

\* C8: every display tick drops the first character of displayText and
\* appends the character of nextUp at nPos, so the length never changes.
C8_RollingWindow ==
  [][DisplayTickStep
       => /\ Len(displayText) > 0
          /\ nPos < Len(nextUp)
          /\ displayText' = Append(Tail(displayText), nextUp[nPos + 1])
          /\ Len(displayText') = Len(displayText)]_vars

\* C8 witness: four ticks into a text that started as one placeholder per
\* symbol, the text still has that length.
C8_Witness ==
  /\ pcD = "loop"
  /\ ticks >= 4
  /\ nPos = 2
  /\ nextUp = updatingMsg
  /\ Len(displayText) = stocksLen * Len(updatingMsg)

\* C9: the display index moves to (index + 1) mod stocksLen on the tick that
\* uses up nextUp, after Len(nextUp) ticks on it, and on no other tick; the
\* quote segment then loaded is that of the record at the new index.
C9_StoreOrderRotation ==
  [][DisplayTickStep
       => IF nPos + 1 = Len(nextUp)
            THEN /\ index' = (index + 1) % stocksLen
                 /\ nPos' = 0
                 /\ (quoteCnt' # 0 /\ ~WriteInProgress(index'))
                      => nextUp' = IF stocksQuotes[index'] = <<>> THEN updatingMsg
                                   ELSE stocksQuotes[index'] \o spacer
            ELSE /\ index' = index
                 /\ nPos' = nPos + 1
                 /\ nextUp' = nextUp]_vars

\* C9 witness: the index has gone round to 0 and the segment loaded there is
\* a quote that the fetch loop wrote after the display had started.
C9_Witness ==
  /\ pcD = "loop"
  /\ ticks >= 16
  /\ index = 0
  /\ nPos = 0
  /\ nextUp = QuoteString(0, QuotePage) \o spacer
  /\ Len(displayText) = Len(updatingMsg) + Len(QuoteString(1, QuotePage) \o spacer)

\* C10: the segment chosen for a symbol whose record is empty is the
\* placeholder updatingMsg.
C10_PlaceholderForEmpty ==
  [][\A i \in StockIdx :
       (SegmentChosenFor(i) /\ stocksQuotes[i] = <<>> /\ ~WriteInProgress(i))
         => nextUp' = updatingMsg]_vars

\* The records getQuote stores for symbol i when the price or the
\* priceChange field is not found.
MissRecords(i) == {QuoteString(i, d) : d \in MissPages}

\* C11: when the record of a symbol comes from a fetch that found no price
\* (or no change), the segment the display loop loads for that symbol is
\* the placeholder updatingMsg, not a quote segment.
C11_MissIsPending ==
  [][\A i \in StockIdx :
       (DisplayTickStep /\ SegmentChosenFor(i) /\ ~WriteInProgress(i)
          /\ stocksQuotes[i] \in MissRecords(i))
         => nextUp' = updatingMsg]_vars

\* A step in which a getQuote call returns.
GetQuoteReturns == pcF \in {"getQuote", "write"} /\ pcF' \notin {"getQuote", "write"}

\* C12: a getQuote(index) call whose response lacks "200 OK" leaves
\* "Invalid Symbol" in the record at index, whatever the record held before;
\* the segment the display task chooses for a symbol whose record is
\* "Invalid Symbol" is that text followed by the separator.
C12_InvalidSymbolShown ==
  [][/\ (GetQuoteReturns /\ resp.connected /\ ~resp.ok200)
          => stocksQuotes'[stocksIndex] = InvalidSymbol
     /\ \A i \in StockIdx :
          (SegmentChosenFor(i) /\ ~WriteInProgress(i) /\ stocksQuotes[i] = InvalidSymbol)
            => nextUp' = InvalidSymbol \o spacer]_vars

\* C12 witness: the display started with a quote in record 1, a later fetch
\* answered without "200 OK" replaced it, and the segment loaded for
\* symbol 1 is "Invalid Symbol" and the separator.
C12_Witness ==
  /\ pcD = "loop"
  /\ ticks = 2
  /\ index = 1
  /\ nPos = 0
  /\ stocksQuotes[0] = <<>>
  /\ Len(displayText) = Len(updatingMsg) + Len(QuoteString(1, QuotePage) \o spacer)
  /\ stocksQuotes[1] = InvalidSymbol
  /\ nextUp = InvalidSymbol \o spacer

\* C13: a getQuote call that fails to connect, or that gets "200 OK" and no
\* content, returns with every record as it was; while a getQuote(index)
\* call runs, no record other than the one at index changes.
C13_FailureLeavesStore ==
  [][/\ (GetQuoteReturns /\ (~resp.connected \/ (resp.ok200 /\ resp.quoteData = <<>>)))
          => stocksQuotes' = stocksQuotes
     /\ \A j \in StockIdx :
          (pcF \in {"getQuote", "write"} /\ j # stocksIndex)
            => stocksQuotes'[j] = stocksQuotes[j]]_vars

\* C13 witness: in its second cycle the fetch loop has called getQuote(0)
\* twice and getQuote(1) once; record 1 holds a quote and record 0 is
\* still empty.
C13_Witness ==
  /\ pcF = "top"
  /\ haveQuoteData
  /\ stocksIndex = 1
  /\ stocksQuotes[0] = <<>>
  /\ stocksQuotes[1] = QuoteString(1, QuotePage)

\* The position of the point in s, 0 when there is none.
DotPos(s) ==
  IF \E p \in 1 .. Len(s) : s[p] = "."
    THEN Min({p \in 1 .. Len(s) : s[p] = "."})
    ELSE 0

\* The number of characters after the point.
Decimals(s) == IF DotPos(s) = 0 THEN 0 ELSE Len(s) - DotPos(s)

\* C14: for a numeric string s, chopDecimalPlaces gives s cut after the
\* second character behind the point (no rounding: the result is a prefix of
\* s), gives s itself when s has no point or at most two characters behind
\* it, and gives the same result when applied again.
C14_TruncateTwoPlaces ==
  ret # <<>>
    => LET s == arg[1]
           r == ret[1]
       IN  /\ Len(r) <= Len(s) /\ r = SubSeq(s, 1, Len(r))
           /\ Decimals(r) <= 2
           /\ Decimals(s) > 2 => (Decimals(r) = 2 /\ DotPos(r) = DotPos(s))
           /\ Decimals(s) <= 2 => r = s
           /\ chopDecimalPlaces(r) = r

\* C14 witness: "123.456" has given "123.45".
C14_Witness ==
  /\ arg = << <<"1", "2", "3", ".", "4", "5", "6">> >>
  /\ ret = << <<"1", "2", "3", ".", "4", "5">> >>

\* The last space-separated field of a record: its change field.
LastField(rec) ==
  LET spaces == {p \in 1 .. Len(rec) : rec[p] = " "}
      last == CHOOSE p \in spaces : \A r \in spaces : r <= p
  IN  SubSeq(rec, last + 1, Len(rec))

IsPrefix(a, b) == Len(a) <= Len(b) /\ a = SubSeq(b, 1, Len(a))

Signs == {"+", "-"}

\* C15: the change field of the record getQuote stores starts with exactly
\* one sign: for a change value that starts with '-' the field is that
\* value (up to its truncation) with no sign added, for any other value it
\* is one '+' followed by the value (up to its truncation).
C15_SignNormalized ==
  ret # <<>>
    => LET c == arg[3]
           field == LastField(ret[1])
       IN  /\ field # <<>>
           /\ field[1] \in Signs
           /\ Len(field) > 1 => field[2] \notin Signs
           /\ IF c[1] = "-"
                THEN IsPrefix(field, c)
                ELSE field[1] = "+" /\ IsPrefix(Tail(field), c)

\* C15 witness: the change value "1.23" is stored as "+1.23".
C15_Witness ==
  /\ ret # <<>>
  /\ arg[3] = <<"1", ".", "2", "3">>
  /\ LastField(ret[1]) = <<"+", "1", ".", "2", "3">>

\* s cut after the second character behind its point.
Trunc2(s) == IF Decimals(s) > 2 THEN SubSeq(s, 1, DotPos(s) + 2) ELSE s

\* s with a '+' in front unless it starts with '-'.
SignNorm(s) == IF s[1] = "-" THEN s ELSE <<"+">> \o s

\* C16: for content that holds a price field with value p and a
\* priceChange field with value c (the first of each in document order),
\* the record is the symbol, a space, p truncated to two decimals, a space,
\* and c sign-normalized and truncated to two decimals, wherever the
\* priceChange field stands with respect to the price field.
C16_RecordFromFirstFields ==
  ret # <<>>
    => ret[1] = stocks(arg[1]) \o <<" ">> \o Trunc2(arg[2]) \o <<" ">>
                  \o SignNorm(Trunc2(arg[3]))

\* C16 witness: priceChange="-1.234" standing before price="45.6789" has
\* given "MSFT 45.67 -1.23".
C16_Witness ==
  /\ arg = <<0, <<"4", "5", ".", "6", "7", "8", "9">>, <<"-", "1", ".", "2", "3", "4">>, 2>>
  /\ ret = << <<"M", "S", "F", "T", " ", "4", "5", ".", "6", "7", " ", "-", "1", ".", "2", "3">> >>

\* A display tick that loads the date banner.
BannerLoadStep == DisplayTickStep /\ nPos + 1 = Len(nextUp) /\ quoteCnt' = 0

\* C17: when the display loop loads a date banner after an earlier one, it
\* has loaded exactly DISP_DATE_CNT quote or placeholder segments since
\* that earlier banner.
C17_BannerPeriod ==
  [][(BannerLoadStep /\ segHist.banners >= 1)
       => segHist.quotes = DISP_DATE_CNT]_vars

\* C18: every record is empty at start-up; a record changes only in the
\* step that completes the assignment of getQuote in the fetch task, a
\* step in which neither the display nor the control task moves; a record
\* that is non-empty never becomes empty.
C18_StoreWrittenByFetchOnly ==
  /\ \A i \in StockIdx : stocksQuotes[i] = <<>>
  /\ [][\A i \in StockIdx :
          /\ stocksQuotes[i] # <<>> => stocksQuotes'[i] # <<>>
          /\ stocksQuotes'[i] # stocksQuotes[i]
               => /\ WriteInProgress(i)
                  /\ pcF' # "write"
                  /\ UNCHANGED <<displayVars, controlVars>>]_vars

\* C18 witness: with all three tasks running, the record of symbol 0 holds
\* "Invalid Symbol" and that of symbol 1 a quote, in the second or a later
\* cycle of the fetch loop.
C18_Witness ==
  /\ pcD = "loop"
  /\ pcC = "delay"
  /\ ticks >= 1
  /\ haveQuoteData
  /\ stocksQuotes[0] = InvalidSymbol
  /\ stocksQuotes[1] = QuoteString(1, QuotePage)

\* C19: from the control tick that suspends the tasks until the one that
\* resumes them, the display and the fetch task are suspended and the
\* display shows nothing.
C19_ClearedWhileInactive ==
  ~displayOn => (suspended = {"display", "fetch"} /\ oled = <<>>)

\* C19 witness: the display task had drawn a frame, the control task has
\* suspended it and cleared the display, and a later control tick finds
\* the display still cleared.
C19_Witness ==
  /\ ~displayOn
  /\ pcD = "loop"
  /\ ticks >= 1
  /\ pcC = "tick"
  /\ oled = <<>>

\* C20: the symbol index of the fetch loop stays in [0, stocksLen); the
\* step in which a getQuote call returns moves it from i to (i + 1) mod
\* stocksLen and no other step changes it, so the next call is for the
\* next symbol; the loop reaches the delay that precedes haveQuoteData =
\* true only by the wrap from stocksLen - 1 to 0, and haveQuoteData turns
\* true only at the end of that delay.
C20_RoundRobin ==
  [][/\ stocksIndex \in StockIdx /\ stocksIndex' \in StockIdx
     /\ IF GetQuoteReturns
          THEN stocksIndex' = (stocksIndex + 1) % stocksLen
          ELSE stocksIndex' = stocksIndex
     /\ (pcF # "cycleDelay" /\ pcF' = "cycleDelay")
          => (GetQuoteReturns /\ stocksIndex = stocksLen - 1 /\ stocksIndex' = 0)
     /\ (~haveQuoteData /\ haveQuoteData')
          => (pcF = "cycleDelay" /\ pcF' = "top" /\ stocksIndex = 0)]_vars

\* C20 witness: after a full cycle and the flag, the loop is in the getQuote
\* call for symbol 1 of its next cycle.
C20_Witness ==
  /\ haveQuoteData
  /\ pcF = "getQuote"
  /\ stocksIndex = 1
  /\ \A i \in StockIdx : stocksQuotes[i] # <<>>

\* C21: after TaskDisplay has cleared haveQuoteData because a record was
\* empty, with the market closed, every iteration of the fetch loop calls
\* getQuote until a fetch cycle has ended: the loop does not take the
\* branch that skips the fetch.
C21_ResetNotLost ==
  [][(FetchLoopStep /\ resetPending) => pcF' = "getQuote"]_vars

\* C22: the control tick that suspends the fetch task never finds it
\* inside a getQuote call.
C22_NoSuspendInsideGetQuote ==
  [][(ControlTickStep /\ ctlCall' = "suspend")
       => pcF \notin {"getQuote", "write"}]_vars

\* C23: in every state the display task is suspended exactly when the
\* fetch task is, and exactly when displayOn is false; the set of suspended
\* tasks and displayOn change only in a tick of TaskControl.
C23_PairedSuspension ==
  /\ [](/\ ("display" \in suspended) <=> ("fetch" \in suspended)
        /\ ("fetch" \in suspended) <=> ~displayOn)
  /\ [][(suspended' # suspended \/ displayOn' # displayOn) => ControlTickStep]_vars

\* C23 witness: the display task has drawn a frame, and a control tick has
\* just resumed the pair it had suspended.
C23_Witness ==
  /\ displayOn
  /\ suspended = {}
  /\ ctlCall = "resume"
  /\ pcD = "loop"
  /\ ticks >= 1

\* C24: from a state with the pair suspended and the hour inside the
\* active window (the display task having a frame left to draw), either
\* the hour leaves the window or a state follows in which both tasks run
\* again and the display task has drawn a frame on the cleared display.
C24_EventuallyResumed ==
  (/\ suspended = {"display", "fetch"}
   /\ ActiveHour(now)
   /\ ticks < MaxTicks)
    ~> (\/ ~ActiveHour(now)
        \/ (suspended = {} /\ displayOn /\ pcD = "loop" /\ oled # <<>>))

\* C24 witness: a control tick has resumed the pair and, before the next
\* control tick, the display task has drawn a frame.
C24_Witness ==
  /\ ctlCall = "resume"
  /\ suspended = {}
  /\ pcD = "loop"
  /\ oled # <<>>
  /\ oled # FetchingMsg

\* ---------------------------------------------------------------------------
\* The interval gate of src/ticker/ticker.ino/ticker.ino.ino (lines 87-88,
\* 361, 375, 380).  millis() is a 32-bit unsigned count, lastUpdateTime a
\* 32-bit long, intervalUpdate an int.  Times are counted in steps of 64
\* milliseconds, which divide intervalUpdate, 2^31 and 2^32 exactly: the
\* 32-bit unsigned range is 2^26 steps and LONG_MAX + 1 is 2^25 steps.
intervalUpdate == 120000
IntervalSteps == intervalUpdate \div 64
ULongSteps == 2^26
LongSteps == 2^25

\* lastUpdateTime = millis(): the unsigned count stored into a long.
StoreLong(u) == IF u >= LongSteps THEN u - ULongSteps ELSE u

\* The long converted for the comparison with the unsigned millis().
ToUnsignedLong(x) == x % ULongSteps

\* millis() > lastUpdateTime + intervalUpdate (line 361).  The sum is a long
\* addition: past LONG_MAX it overflows, which is undefined, so either outcome
\* of the test is possible.
GateOpen(m, last) ==
  LET sum == last + IntervalSteps
  IN  IF sum >= LongSteps THEN BOOLEAN ELSE {m > ToUnsignedLong(sum)}

\* Readings of millis() at the end of a cycle, and the time elapsed since.
WrapTimes ==
  {b + k : b \in {0, LongSteps - IntervalSteps - 1, LongSteps,
                  ULongSteps - IntervalSteps - 1},
           k \in {0, 1, 16, IntervalSteps}}
Elapsed ==
  {0, 1, 16, IntervalSteps - 1, IntervalSteps, IntervalSteps + 1,
   2 * IntervalSteps}

InitGate ==
  \E t0 \in WrapTimes : \E d \in Elapsed : InitWith(At(1, 9, 30, 1), <<t0, d>>)

\* One loop iteration, arg[2] steps after lastUpdateTime = millis() stored
\* the reading arg[1].
GateCall ==
  /\ ret = <<>>
  /\ \E b \in GateOpen((arg[1] + arg[2]) % ULongSteps, StoreLong(arg[1])) :
       ret' = <<b>>
  /\ UNCHANGED <<now, stocksQuotes, haveQuoteData, fetchVars, displayVars,
                 controlVars, suspended, oled, cycleSinceClose, resetPending, arg>>

NextGate == GateCall

SpecGate == InitGate /\ [][NextGate]_vars

\* C25: once a cycle has ended (or the market was found closed with the data
\* loaded) the fetch loop invokes no fetch until at least intervalUpdate
\* milliseconds have elapsed: the gate of an iteration opens only when the
\* time elapsed since lastUpdateTime was set is at least intervalUpdate.
C25_WaitsInterval ==
  (ret # <<>> /\ ret[1] = TRUE) => arg[2] >= IntervalSteps

C25_GateOpensEarly ==
  /\ ret = <<TRUE>>
  /\ arg[2] < IntervalSteps
  /\ StoreLong(arg[1]) + IntervalSteps < LongSteps

\* ---------------------------------------------------------------------------
\* The fetch and render tasks of src/ticker/ticker.ino/ticker.ino.ino.
\* getQuote and TaskDisplay have the text of src/StockTicker.ino; the fetch
\* loop (lines 358-384) waits at its gate instead of in vTaskDelay and sets
\* haveQuoteData where it resets stocksIndex; setup() creates no TaskControl.

\* setup() after delay(30000): creates TaskDisplay (lines 467-474).
TickerSetupCreateTasks ==
  /\ pcD = "none"
  /\ pcD' = "init"
  /\ UNCHANGED <<now, stocksQuotes, haveQuoteData, fetchVars, displayText,
                 nextUp, nPos, index, quoteCnt, ticks, segHist, controlVars,
                 suspended, oled, cycleSinceClose, resetPending, pureVars>>

\* An iteration whose gate is open: getQuote(stocksIndex), or
\* lastUpdateTime = millis() in the else branch, which closes the gate.
TickerTaskGetQuotesTop == TaskGetQuotesTopFrom(Responses)

\* stocksIndex += 1; at the wrap stocksIndex = 0, lastUpdateTime = millis()
\* and haveQuoteData = true (lines 372-377).
TickerAfterGetQuote ==
  /\ stocksIndex' = AdvanceIndex(stocksIndex)
  /\ pcF' = IF stocksIndex + 1 = stocksLen THEN "cycleDelay" ELSE "top"
  /\ haveQuoteData' = IF stocksIndex + 1 = stocksLen THEN TRUE ELSE haveQuoteData
  /\ cycleSinceClose' = IF stocksIndex + 1 = stocksLen THEN TRUE ELSE cycleSinceClose
  /\ resetPending' = IF stocksIndex + 1 = stocksLen THEN FALSE ELSE resetPending
  /\ resp' = ConnectFailed

TickerGetQuoteRun ==
  /\ pcF = "getQuote"
  /\ IF Writes(resp)
       THEN /\ pcF' = "write"
            /\ UNCHANGED <<stocksIndex, resp, haveQuoteData, cycleSinceClose,
                           resetPending>>
       ELSE TickerAfterGetQuote
  /\ UNCHANGED <<now, stocksQuotes, displayVars, controlVars, suspended, oled,
                 pureVars>>

TickerGetQuoteStore ==
  /\ pcF = "write"
  /\ stocksQuotes' = [stocksQuotes EXCEPT ![stocksIndex] = NewValue(stocksIndex, resp)]
  /\ TickerAfterGetQuote
  /\ UNCHANGED <<now, displayVars, controlVars, suspended, oled, pureVars>>

\* The gate of line 361 opens again after a wrap or after the else branch.
TickerGateOpens ==
  /\ pcF \in {"cycleDelay", "idleDelay"}
  /\ pcF' = "top"
  /\ UNCHANGED <<now, stocksQuotes, haveQuoteData, stocksIndex, resp,
                 displayVars, controlVars, suspended, oled, cycleSinceClose,
                 resetPending, pureVars>>

\* Booted after the close of a Monday, inside the active window.
InitTicker == InitAt(At(1, 16, 0, 0))

NextTicker ==
  \/ TickerSetupCreateTasks
  \/ TickerTaskGetQuotesTop
  \/ TickerGetQuoteRun
  \/ TickerGetQuoteStore
  \/ TickerGateOpens
  \/ TaskDisplayStart
  \/ (ticks < MaxMissTicks /\ TaskDisplayTick)

SpecTicker == InitTicker /\ [][NextTicker]_vars

\* A step of the fetch or the render task of src/StockTicker.ino.
FetchRenderStep ==
  \/ TaskGetQuotesTop
  \/ GetQuoteRun
  \/ GetQuoteStore
  \/ CycleDelayDone
  \/ IdleDelayDone
  \/ TaskDisplayStart
  \/ TaskDisplayTick

\* setup() creating the render task, with or without the control task.
RenderTaskCreated ==
  /\ pcD = "none"
  /\ pcD' = "init"
  /\ UNCHANGED <<now, stocksQuotes, haveQuoteData, fetchVars, displayText,
                 nextUp, nPos, index, quoteCnt, ticks, segHist, suspended, oled>>

\* C26: with the hour inside the active window the two sketches behave the
\* same: every step of the fetch and render tasks of ticker.ino.ino is a step
\* of the same task of StockTicker.ino (same fetch invocations, store writes,
\* loaded segments, and the same moment at which haveQuoteData becomes true
\* relative to the wait between cycles).
C26_SameSteps == [][RenderTaskCreated \/ FetchRenderStep]_vars

\* A display tick that loads a quote (or placeholder) segment into nextUp.
QuoteLoadStep == DisplayTickStep /\ nPos + 1 = Len(nextUp) /\ quoteCnt' # 0

\* C27: the date banner drops no quote from the rotation: the quote segment
\* loaded after the segment of symbol i is the segment of symbol i + 1
\* (modulo the symbol count), whether or not a banner was loaded in between,
\* so that between two segments of one symbol every other symbol's segment
\* is loaded exactly once.
C27_NoQuoteDropped ==
  [][QuoteLoadStep => index' = (segHist.last + 1) % stocksLen]_vars

\* ---------------------------------------------------------------------------
\* The banner format (lines 338-339) as a function of the date and time.
BannerDays == {1, 9, 10, 31}
BannerHours == {0, 9, 12, 23}
BannerMinutes == {0, 59}

InitFormat ==
  \E mon \in 1 .. 12 : \E mday \in BannerDays : \E hour \in BannerHours :
    \E min \in BannerMinutes :
      InitWith(At(1, 9, 30, 1), <<mon, mday, hour, min>>)

\* strftime formats the banner: ret is the number of bytes it stores.
FormatCall ==
  /\ ret = <<>>
  /\ ret' = <<BytesStored(BannerText(arg[1], arg[2], arg[3], arg[4]))>>
  /\ UNCHANGED <<now, stocksQuotes, haveQuoteData, fetchVars, displayVars,
                 controlVars, suspended, oled, cycleSinceClose, resetPending, arg>>

NextFormat == FormatCall

SpecFormat == InitFormat /\ [][NextFormat]_vars

\* C28: the formatted banner always fits dateTime: for every month, day and
\* time the characters of the banner plus the terminator are at most the
\* capacity of dateTime, and the limit handed to the formatter is not larger
\* than that capacity.
C28_BannerFits ==
  ret # <<>> => (ret[1] <= dateTimeSize /\ strftimeMax <= dateTimeSize)

\* The shortest banner (May) already needs more than the buffer holds.
C28_ShortestOverflows ==
  /\ ret # <<>>
  /\ arg[1] = 5
  /\ ret[1] > dateTimeSize
  /\ ret[1] <= strftimeMax

=============================================================================
